---- MODULE Spec2Model ----
(***************************************************************************)
(* Model of spec.c of DBrew: the executable code storage (CStorage), the  *)
(* x86-64 decoder (decodeFunc, parseModRM, the IR constructors), the       *)
(* emulator (initEmulatorState, emulate) and spec2.                        *)
(*                                                                         *)
(* Addresses handed to the decoder are offsets relative to f (fp = 0).     *)
(* The bytes at f are the sequence mem followed by FillByte padding, as    *)
(* a function body is followed by padding in a mapped text segment.        *)
(***************************************************************************)
EXTENDS Integers, Sequences, FiniteSets, TLC

(* ------------------------------------------------------------------ *)
(* Bounds of the model                                                *)
(* ------------------------------------------------------------------ *)
\* number of freely chosen bytes at f
MemLen == 3
\* number of freely chosen bytes at f in the runs checked for termination
FairLen == 2
\* number of successful getCodeStorage calls on one code storage
MaxCommits == 3
\* stacksize passed to initEmulatorState
StackSize == 16
\* number of emulate calls on one emulator state
MaxEmuCalls == 2
\* number of freely chosen bytes at the f passed to spec2
FuncLen == 2

(* ------------------------------------------------------------------ *)
(* Program constants                                                  *)
(* ------------------------------------------------------------------ *)
Reg_None == 0
Reg_AX == 1
Reg_CX == 2
Reg_DX == 3
Reg_SP == 5
Reg_BP == 6
Reg_SI == 7
Reg_DI == 8
Reg_8 == 9
Reg_Max == 17

REX_MASK_B == 1
REX_MASK_X == 2
REX_MASK_R == 4
REX_MASK_W == 8

\* content of malloc'ed storage that was never written
Uninit == -1

\* page size initCodeStorage rounds to
PageSize == 4096

\* padding found behind the chosen bytes (int3)
FillByte == 204

\* bytes the decoder input is drawn from; each plays several roles:
\*   195 c3 ret                 / ModRM mod=3 reg=0 rm=3
\*    85 55 push %rbp           / ModRM mod=1 reg=2 rm=5 / SIB scale 2 idx 2 base 5
\*    93 5d pop %rbp            / ModRM mod=1 reg=3 rm=5 / SIB scale 2 idx 3 base 5
\*   137 89 mov r/m,r           / ModRM mod=2 reg=1 rm=1
\*   139 8b mov r,r/m           / ModRM mod=2 reg=1 rm=3
\*     1 01 add r/m,r           / ModRM mod=0 reg=0 rm=1
\*    72 48 REX.W               / ModRM mod=1 reg=1 rm=0
\*    71 47 REX.RXB             / ModRM mod=1 reg=0 rm=7
\*     4 04 (unknown opcode)    / ModRM mod=0 reg=0 rm=4 (SIB follows)
\*    37 25 (unknown opcode)    / ModRM mod=0 reg=4 rm=5 / SIB scale 1 idx 4 base 5
Bytes == {195, 85, 93, 137, 139, 1, 72, 71, 4, 37}

VARIABLES
    \* ---- decodeFunc: arguments
    mem,        \* the bytes at f
    max,        \* byte budget
    stopAtRet,
    \* ---- decodeFunc: locals
    o, hasRex, rex, retFound,
    \* ---- Code* c
    code,       \* c->instr[0 .. c->count-1]
    capacity,   \* c->capacity
    pc,         \* "decode" (in the loop), "done" (returned), "trap" (assertion failed)
    readEnd,    \* one past the highest offset of f read so far
    \* ---- CStorage* cs
    cs,         \* [size, fullsize, used, buf]
    cpc,        \* "none", "ready", "exit" (exit(1)), "abort" (assertion failed), "freed"
    last,       \* the last call on cs and what it returned
    commits,    \* ranges returned by the successful getCodeStorage calls, in order
    \* ---- EmuState emuState
    es,         \* [r, stack, stack_capacity]
    stackMem,   \* the bytes stack[0 .. stack_capacity-1]
    \* ---- emulate: arguments, locals, result
    eargs,      \* the five integer arguments behind c
    ei,         \* i
    foundRet,
    eret,       \* the value returned
    epc,        \* "noinit", "idle", "run", "returned", "abort" (assertion failed),
                \* "segv" (fault on an access outside the stack)
    ncalls,     \* number of emulate calls so far
    hist,       \* [r, mem, ea, instr] at entry and after each emulated instruction
    wild,       \* a byte outside the stack was read or written
    results,    \* [args, start, ret] of the emulate calls that returned
    \* ---- spec2
    spc,        \* position in spec2
    heap        \* Code buffers allocated and not freed

emuVars == <<es, stackMem, eargs, ei, foundRet, eret, epc, ncalls, hist, wild, results>>

s2Vars == <<spc, heap>>

vars == <<mem, max, stopAtRet, o, hasRex, rex, retFound, code, capacity, pc, readEnd,
          cs, cpc, last, commits, emuVars, s2Vars>>

(* ------------------------------------------------------------------ *)
(* Helpers                                                            *)
(* ------------------------------------------------------------------ *)
\* (x & m) != 0 for a single-bit mask m
HasBit(x, m) == (x \div m) % 2 = 1

Max2(a, b) == IF a > b THEN a ELSE b

\* fp[i]
Byte(i) == IF i < Len(mem) THEN mem[i + 1] ELSE FillByte

\* *((signed char*) p)
SignedChar(b) == IF b >= 128 THEN b - 256 ELSE b

\* *((int32_t*) (fp + i)), little endian
Int32At(i) ==
    Byte(i) + 256 * Byte(i + 1) + 65536 * Byte(i + 2)
        + 16777216 * SignedChar(Byte(i + 3))

UninitOperand ==
    [type |-> "OT_None", reg |-> Uninit, ireg |-> Uninit, val |-> Uninit, scale |-> Uninit]

\* opWidth(ot); its default: assert(0) is the value 0 here
opWidth(ot) ==
    CASE ot \in {"OT_Imm8", "OT_Reg8", "OT_Ind8"} -> 8
      [] ot \in {"OT_Imm16", "OT_Reg16", "OT_Ind16"} -> 16
      [] ot \in {"OT_Imm32", "OT_Reg32", "OT_Ind32"} -> 32
      [] ot \in {"OT_Imm64", "OT_Reg64", "OT_Ind64"} -> 64
      [] OTHER -> 0

(* ------------------------------------------------------------------ *)
(* uint64_t                                                           *)
(* ------------------------------------------------------------------ *)
\* A uint64_t is kept as its eight bytes, least significant first, as it lies
\* in memory; a uint32_t is a uint64_t whose upper four bytes are 0.
W0 == <<0, 0, 0, 0, 0, 0, 0, 0>>

RECURSIVE NatBytes(_, _)
NatBytes(n, k) == IF k = 0 THEN <<>> ELSE <<n % 256>> \o NatBytes(n \div 256, k - 1)

\* (uint64_t) n for an int n >= 0
ToW(n) == NatBytes(n, 8)

\* ~a
NotW(a) == <<255 - a[1], 255 - a[2], 255 - a[3], 255 - a[4],
             255 - a[5], 255 - a[6], 255 - a[7], 255 - a[8]>>

\* (uint64_t) d for a signed d: sign extension
SignedW(d) == IF d >= 0 THEN ToW(d) ELSE NotW(ToW(-d - 1))

RECURSIVE AddBytes(_, _, _, _)
AddBytes(a, b, i, c) ==
    IF i > Len(a) THEN <<>>
    ELSE <<(a[i] + b[i] + c) % 256>> \o AddBytes(a, b, i + 1, (a[i] + b[i] + c) \div 256)

\* a + b of uint64_t: the carry out of the top byte is lost
AddW(a, b) == AddBytes(a, b, 1, 0)

\* a - b of uint64_t
SubW(a, b) == AddW(AddW(a, NotW(b)), ToW(1))

\* k * a for an int k >= 0
RECURSIVE MulW(_, _)
MulW(k, a) == IF k = 0 THEN W0 ELSE AddW(a, MulW(k - 1, a))

Trunc32_Keep(v) == v

\* (uint32_t) v
Trunc32(v) == <<v[1], v[2], v[3], v[4], 0, 0, 0, 0>>

RECURSIVE LtFrom(_, _, _)
LtFrom(a, b, i) ==
    IF i = 0 THEN FALSE
    ELSE IF a[i] # b[i] THEN a[i] < b[i]
    ELSE LtFrom(a, b, i - 1)

\* a < b of uint64_t or pointers
LtW(a, b) == LtFrom(a, b, Len(a))

\* the int value of a uint64_t below 2^31
ToNat(a) == a[1] + 256 * a[2] + 65536 * a[3] + 16777216 * a[4]

\* emuState as the loader leaves it: static storage is zero
EmuIdle ==
    /\ es = [r |-> [i \in 0..(Reg_Max - 1) |-> W0], stack |-> W0, stack_capacity |-> 0]
    /\ stackMem = <<>>
    /\ eargs = <<>>
    /\ ei = 0
    /\ foundRet = FALSE
    /\ eret = W0
    /\ epc = "noinit"
    /\ ncalls = 0
    /\ hist = <<>>
    /\ wild = FALSE
    /\ results = {}

\* spec2 not entered, no Code buffer allocated
S2Idle ==
    /\ spc = "none"
    /\ heap = {}

(* ------------------------------------------------------------------ *)
(* IR constructors                                                    *)
(* ------------------------------------------------------------------ *)
\* the assertions of getRegOp(w, r)
getRegOpOK(w, r) == (w = 32 \/ w = 64) /\ r > Reg_None /\ r < Reg_Max

\* the static Operand filled by getRegOp(w, r); only type, reg and scale are set
\* on the first call, val and ireg keep the zero of static storage
getRegOp(w, r) ==
    [type |-> IF w = 32 THEN "OT_Reg32" ELSE "OT_Reg64",
     reg |-> r, ireg |-> 0, val |-> 0, scale |-> 0]

\* the assertions of copyOperand(dst, src)
copyOperandOK(src) ==
    CASE src.type \in {"OT_Imm32"} -> src.val >= 0
      [] src.type \in {"OT_Imm64"} -> TRUE
      [] src.type \in {"OT_Reg32", "OT_Reg64"} ->
            src.reg > Reg_None /\ src.reg < Reg_Max
      [] src.type \in {"OT_Ind32", "OT_Ind64"} ->
            /\ src.reg >= Reg_None /\ src.reg < Reg_Max
            /\ (src.scale > 0 =>
                   /\ src.scale \in {1, 2, 4, 8}
                   /\ src.ireg >= Reg_None /\ src.ireg < Reg_Max)
      [] OTHER -> FALSE

\* *dst after copyOperand(dst, src): only the fields of src's type are written
copyOperand(dst, src) ==
    CASE src.type \in {"OT_Imm32", "OT_Imm64"} ->
            [dst EXCEPT !.type = src.type, !.val = src.val]
      [] src.type \in {"OT_Reg32", "OT_Reg64"} ->
            [dst EXCEPT !.type = src.type, !.reg = src.reg]
      [] src.type \in {"OT_Ind32", "OT_Ind64"} ->
            [dst EXCEPT !.type = src.type, !.reg = src.reg, !.val = src.val,
                        !.scale = src.scale,
                        !.ireg = IF src.scale > 0 THEN src.ireg ELSE @]
      [] OTHER -> [dst EXCEPT !.type = src.type]

nextInstrOK_OffByOne == Len(code) + 1 < capacity

\* the assertion of nextInstr(c, a)
nextInstrOK == Len(code) < capacity

\* the entry written by addSimple(c, a, it)
addSimple(a, it) ==
    [addr |-> a, type |-> it, dst |-> UninitOperand, src |-> UninitOperand]

\* the entry written by addUnaryOp(c, a, it, o)
addUnaryOp(a, it, op) ==
    [addr |-> a, type |-> it, dst |-> copyOperand(UninitOperand, op),
     src |-> UninitOperand]

\* the entry written by addBinaryOp(c, a, it, o1, o2)
addBinaryOp(a, it, o1, o2) ==
    [addr |-> a, type |-> it, dst |-> copyOperand(UninitOperand, o1),
     src |-> copyOperand(UninitOperand, o2)]

(* ------------------------------------------------------------------ *)
(* parseModRM                                                         *)
(* ------------------------------------------------------------------ *)
\* parseModRM(fp + p, rx, &o1, &o2): o is the value returned (bytes consumed),
\* o1 the r/m operand, o2 the reg operand.  Fields of the caller's Operand
\* locals that parseModRM does not write stay Uninit.
parseModRM(p, rx) ==
    LET hasRexL == rx > 0
        modrm == Byte(p)
        mod == (modrm % 256) \div 64
        reg == (modrm % 64) \div 8
        rm == modrm % 8
        \* r = Reg_AX + reg is taken before reg is extended by REX.R
        r2 == Reg_AX + reg
        reg_ot == IF hasRexL /\ HasBit(rx, REX_MASK_W) THEN "OT_Reg64" ELSE "OT_Reg32"
        op2 == [UninitOperand EXCEPT !.type = reg_ot, !.reg = r2]
        hasSib == rm = 4
        sib == Byte(p + 1)
        scale == IF hasSib THEN 2 ^ (sib \div 64) ELSE 0
        idx == (sib % 64) \div 8
        base == sib % 8
        o0 == IF hasSib THEN 2 ELSE 1
        disp == IF mod = 1 THEN SignedChar(Byte(p + o0))
                ELSE IF mod = 2 \/ (mod = 0 /\ rm = 5) THEN Int32At(p + o0)
                ELSE 0
        o1len == IF mod = 1 THEN o0 + 1
                 ELSE IF mod = 2 \/ (mod = 0 /\ rm = 5) THEN o0 + 4
                 ELSE o0
        ind_ot == IF hasRexL /\ HasBit(rx, REX_MASK_W) THEN "OT_Ind64" ELSE "OT_Ind32"
        extB == IF hasRexL /\ HasBit(rx, REX_MASK_B) THEN 8 ELSE 0
        extX == IF hasRexL /\ HasBit(rx, REX_MASK_X) THEN 8 ELSE 0
    IN  IF mod = 3
        THEN [o |-> 1,
              o1 |-> [UninitOperand EXCEPT !.type = reg_ot, !.reg = Reg_AX + rm + extB],
              o2 |-> op2]
        ELSE IF scale = 0
        THEN [o |-> o1len,
              o1 |-> [UninitOperand EXCEPT
                        !.type = ind_ot, !.scale = scale, !.val = disp,
                        !.reg = IF mod = 0 /\ rm = 5 THEN Reg_None
                                ELSE Reg_AX + rm + extB],
              o2 |-> op2]
        ELSE [o |-> o1len,
              o1 |-> [UninitOperand EXCEPT
                        !.type = ind_ot, !.scale = scale, !.val = disp,
                        !.ireg = IF idx = 4 THEN Reg_None ELSE Reg_AX + idx + extX,
                        !.reg = IF base = 5 /\ mod = 0 THEN Reg_None
                                ELSE Reg_AX + base + extB],
              o2 |-> op2]

(* ------------------------------------------------------------------ *)
(* decodeFunc                                                         *)
(* ------------------------------------------------------------------ *)
IsRex(b) == b >= 64 /\ b <= 79

\* the prefix loop started at offset i with the prefix state st = [o, hasRex, rex]
RECURSIVE PrefixScan(_)
PrefixScan(st) ==
    IF IsRex(Byte(st.o))
    THEN PrefixScan([o |-> st.o + 1, hasRex |-> 1, rex |-> Byte(st.o) % 16])
    ELSE st

\* state after the prefix loop of the current iteration
Pfx == PrefixScan([o |-> o, hasRex |-> hasRex, rex |-> rex])

\* fp[o] as switched on
Opcode == Byte(Pfx.o)

\* rex argument passed to parseModRM: hasRex ? rex : 0
RexArg == IF Pfx.hasRex = 1 THEN Pfx.rex ELSE 0

LoopCond == pc = "decode" /\ o < max /\ ~retFound

Emit_KeepRex(ok, instr, newO, ret) ==
    /\ readEnd' = Max2(readEnd, newO)
    /\ IF ok /\ nextInstrOK
       THEN /\ code' = Append(code, instr)
            /\ o' = newO
            /\ retFound' = ret
            /\ hasRex' = Pfx.hasRex
            /\ rex' = Pfx.rex
            /\ pc' = "decode"
       ELSE /\ pc' = "trap"
            /\ UNCHANGED <<code, o, retFound, hasRex, rex>>
    /\ UNCHANGED <<mem, max, stopAtRet, capacity, cs, cpc, last, commits, emuVars, s2Vars>>

\* The tail of one loop iteration: the constructor's assertions (ok), the entry
\* appended, the offset after the instruction, retFound, and hasRex = 0.
Emit(ok, instr, newO, ret) ==
    /\ readEnd' = Max2(readEnd, newO)
    /\ IF ok /\ nextInstrOK
       THEN /\ code' = Append(code, instr)
            /\ o' = newO
            /\ retFound' = ret
            /\ hasRex' = 0
            /\ rex' = Pfx.rex
            /\ pc' = "decode"
       ELSE /\ pc' = "trap"
            /\ UNCHANGED <<code, o, retFound, hasRex, rex>>
    /\ UNCHANGED <<mem, max, stopAtRet, capacity, cs, cpc, last, commits, emuVars, s2Vars>>

DecodeRet_NoStop ==
    /\ LoopCond
    /\ Opcode = 195
    /\ Emit(TRUE, addSimple(o, "IT_RET"), Pfx.o + 1, FALSE)

\* case 0xc3
DecodeRet ==
    /\ LoopCond
    /\ Opcode = 195
    /\ Emit(TRUE, addSimple(o, "IT_RET"), Pfx.o + 1, stopAtRet)

\* case 0x50 .. 0x57
DecodePush ==
    /\ LoopCond
    /\ Opcode >= 80 /\ Opcode <= 87
    /\ LET r == Reg_AX + (Opcode - 80)
       IN  Emit(getRegOpOK(64, r) /\ copyOperandOK(getRegOp(64, r)),
                addUnaryOp(o, "IT_PUSH", getRegOp(64, r)), Pfx.o + 1, FALSE)

\* case 0x58 .. 0x5F
DecodePop ==
    /\ LoopCond
    /\ Opcode >= 88 /\ Opcode <= 95
    /\ LET r == Reg_AX + (Opcode - 88)
       IN  Emit(getRegOpOK(64, r) /\ copyOperandOK(getRegOp(64, r)),
                addUnaryOp(o, "IT_POP", getRegOp(64, r)), Pfx.o + 1, FALSE)

\* case 0x89: mov r/m,r (r/m = dst, r = src)
DecodeMovMR ==
    /\ LoopCond
    /\ Opcode = 137
    /\ LET m == parseModRM(Pfx.o + 1, RexArg)
       IN  Emit(copyOperandOK(m.o1) /\ copyOperandOK(m.o2),
                addBinaryOp(o, "IT_MOV", m.o1, m.o2), Pfx.o + 1 + m.o, FALSE)

\* case 0x8B: mov r,r/m (parseModRM fills o2 with r/m and o1 with r)
DecodeMovRM ==
    /\ LoopCond
    /\ Opcode = 139
    /\ LET m == parseModRM(Pfx.o + 1, RexArg)
       IN  Emit(copyOperandOK(m.o2) /\ copyOperandOK(m.o1),
                addBinaryOp(o, "IT_MOV", m.o2, m.o1), Pfx.o + 1 + m.o, FALSE)

\* case 0x01: add r/m,r
DecodeAdd ==
    /\ LoopCond
    /\ Opcode = 1
    /\ LET m == parseModRM(Pfx.o + 1, RexArg)
       IN  Emit(copyOperandOK(m.o1) /\ copyOperandOK(m.o2),
                addBinaryOp(o, "IT_ADD", m.o1, m.o2), Pfx.o + 1 + m.o, FALSE)

Supported(b) == b = 195 \/ (b >= 80 /\ b <= 95) \/ b = 137 \/ b = 139 \/ b = 1

\* default:
DecodeInvalid ==
    /\ LoopCond
    /\ ~Supported(Opcode)
    /\ Emit(TRUE, addSimple(o, "IT_Invalid"), Pfx.o + 1, FALSE)

\* the loop condition fails: decodeFunc returns
DecodeReturn ==
    /\ pc = "decode"
    /\ ~(o < max /\ ~retFound)
    /\ pc' = "done"
    /\ UNCHANGED <<mem, max, stopAtRet, o, hasRex, rex, retFound, code, capacity,
                   readEnd, cs, cpc, last, commits, emuVars, s2Vars>>

\* no code storage in use
CsIdle ==
    /\ cs = [size |-> 0, fullsize |-> 0, used |-> 0, buf |-> 0]
    /\ cpc = "none"
    /\ last = [op |-> "none", size |-> 0, ret |-> 0, ok |-> TRUE,
               before |-> [size |-> 0, fullsize |-> 0, used |-> 0, buf |-> 0]]
    /\ commits = <<>>

\* c = allocCode(capacity); decodeFunc(c, f, max, stopAtRet) is entered, with
\* n chosen bytes at f, a budget of budgets and a capacity of caps
DecEntry(n, budgets, caps) ==
    /\ mem \in [1..n -> Bytes]
    /\ max \in budgets
    /\ stopAtRet \in BOOLEAN
    /\ capacity \in caps
    /\ o = 0
    /\ hasRex = 0
    /\ rex = Uninit
    /\ retFound = FALSE
    /\ code = <<>>
    /\ pc = "decode"
    /\ readEnd = 0
    /\ CsIdle
    /\ EmuIdle
    /\ S2Idle

DecInit == DecEntry(MemLen, 0..MemLen, 1..MemLen)

\* budgets that reach into the padding; a capacity of one entry, or ample
DecInitFair == DecEntry(FairLen, 0..(FairLen + 1), {1, FairLen + 1})

DecNext ==
    \/ DecodeRet
    \/ DecodePush
    \/ DecodePop
    \/ DecodeMovMR
    \/ DecodeMovRM
    \/ DecodeAdd
    \/ DecodeInvalid
    \/ DecodeReturn

SpecDecode == DecInit /\ [][DecNext]_vars

\* decodeFunc runs on one thread that is never suspended for good
SpecDecodeFair == DecInitFair /\ [][DecNext]_vars /\ WF_vars(DecNext)

(* ------------------------------------------------------------------ *)
(* x86-64 encoding rules the decoder is measured against (SDM 2.1,    *)
(* 2.2): where the opcode of the instruction at offset a sits, the    *)
(* REX bits in force, and the length of the instruction.              *)
(* ------------------------------------------------------------------ *)
RECURSIVE OpPos(_)
OpPos(a) == IF IsRex(Byte(a)) THEN OpPos(a + 1) ELSE a

\* low nibble of the REX prefix immediately before the opcode, 0 without one
RexBits(a) == IF OpPos(a) > a THEN Byte(OpPos(a) - 1) % 16 ELSE 0

Ext(a, mask) == IF HasBit(RexBits(a), mask) THEN 8 ELSE 0

HasModRM(b) == b = 137 \/ b = 139 \/ b = 1

ModOf(m) == m \div 64
RegOf(m) == (m % 64) \div 8
RmOf(m) == m % 8

\* bytes of ModR/M + SIB + displacement starting at offset p
ModRMLen(p) ==
    LET m == Byte(p)
        sibLen == IF RmOf(m) = 4 /\ ModOf(m) # 3 THEN 1 ELSE 0
        dispLen == IF ModOf(m) = 1 THEN 1
                   ELSE IF ModOf(m) = 2 THEN 4
                   ELSE IF ModOf(m) = 0 /\ RmOf(m) = 5 THEN 4
                   ELSE IF ModOf(m) = 0 /\ RmOf(m) = 4 /\ Byte(p + 1) % 8 = 5 THEN 4
                   ELSE 0
    IN  1 + sibLen + dispLen

\* ISA length of the instruction starting at offset a (prefixes included)
TrueLen(a) ==
    (OpPos(a) - a) + 1 + (IF HasModRM(Byte(OpPos(a))) THEN ModRMLen(OpPos(a) + 1) ELSE 0)

\* bytes the decoder consumed for entry i of the Code buffer
Consumed(i) ==
    IF i < Len(code) THEN code[i + 1].addr - code[i].addr ELSE o - code[i].addr

LastIsRet == code # <<>> /\ code[Len(code)].type = "IT_RET"

(* ------------------------------------------------------------------ *)
(* Claims on the decoder                                              *)
(* ------------------------------------------------------------------ *)

\* C1: decodeFunc comes to an end; when it has returned, the consumed offset
\* is >= max or stopAtRet is set and the last entry is a RET; with stopAtRet
\* set a RET is only ever the last entry, with stopAtRet clear a RET never
\* ends decoding; every entry starts at an offset < max.
C1_DecodeTerminates ==
    /\ [](/\ pc = "done" => (o >= max \/ (stopAtRet /\ LastIsRet))
          /\ stopAtRet => \A i \in 1..(Len(code) - 1) : code[i].type # "IT_RET"
          /\ ~stopAtRet => ~retFound
          /\ (~stopAtRet /\ pc = "done") => o >= max
          /\ \A i \in 1..Len(code) : code[i].addr < max)
    /\ <>(pc # "decode")

\* decodeFunc has returned at a RET that is not the first entry, budget left
C1_Witness ==
    /\ pc = "done" /\ stopAtRet /\ LastIsRet
    /\ o < max
    /\ Len(code) >= 2

\* C2: decodeFunc never fails an assertion of nextInstr, getRegOp or copyOperand.
C2_NeverTraps == pc # "trap"

\* C3: no byte at an offset >= max is read or consumed.
C3_BudgetRespected == readEnd <= max /\ o <= max

\* C4: opcode 0x50+r (0x58+r) is decoded as PUSH (POP) of the 64-bit register
\* r, or r+8 under a REX prefix with the B bit.
C4_PushPopRegister ==
    \A i \in 1..Len(code) :
        LET e == code[i]
            b == Byte(OpPos(e.addr))
        IN  /\ (b >= 80 /\ b <= 87) =>
                  /\ e.type = "IT_PUSH"
                  /\ e.dst.type = "OT_Reg64"
                  /\ e.dst.reg = Reg_AX + (b - 80) + Ext(e.addr, REX_MASK_B)
            /\ (b >= 88 /\ b <= 95) =>
                  /\ e.type = "IT_POP"
                  /\ e.dst.type = "OT_Reg64"
                  /\ e.dst.reg = Reg_AX + (b - 88) + Ext(e.addr, REX_MASK_B)

\* C5: for opcodes 0x89, 0x8B, 0x01 the reg operand is register
\* Reg_AX + reg + 8*REX.R, with mod = 3 the r/m operand is register
\* Reg_AX + rm + 8*REX.B, both operands are 64 bits wide under REX.W and 32
\* otherwise, and r/m is dst for 0x89 and 0x01, src for 0x8B.
C5_ModRMRegisters ==
    \A i \in 1..Len(code) :
        LET e == code[i]
            b == Byte(OpPos(e.addr))
            m == Byte(OpPos(e.addr) + 1)
            w == IF HasBit(RexBits(e.addr), REX_MASK_W) THEN 64 ELSE 32
            regOp == IF b = 139 THEN e.dst ELSE e.src
            rmOp == IF b = 139 THEN e.src ELSE e.dst
        IN  HasModRM(b) =>
              /\ regOp.type \in {"OT_Reg32", "OT_Reg64"}
              /\ regOp.reg = Reg_AX + RegOf(m) + Ext(e.addr, REX_MASK_R)
              /\ opWidth(regOp.type) = w
              /\ opWidth(rmOp.type) = w
              /\ ModOf(m) = 3 =>
                    /\ rmOp.type \in {"OT_Reg32", "OT_Reg64"}
                    /\ rmOp.reg = Reg_AX + RmOf(m) + Ext(e.addr, REX_MASK_B)
              /\ ModOf(m) # 3 => rmOp.type \in {"OT_Ind32", "OT_Ind64"}

\* C6: the bytes consumed for every supported instruction are its ISA length.
C6_DecodeLength ==
    \A i \in 1..Len(code) :
        Supported(Byte(OpPos(code[i].addr))) => Consumed(i) = TrueLen(code[i].addr)

\* C7: a loop iteration that meets an unsupported opcode byte appends exactly
\* one IT_Invalid entry, consumes that opcode byte, and stays in the loop.
C7_UnknownOpcode ==
    [][(LoopCond /\ ~Supported(Opcode)) =>
          /\ Len(code') = Len(code) + 1
          /\ SubSeq(code', 1, Len(code)) = code
          /\ code'[Len(code')].type = "IT_Invalid"
          /\ code'[Len(code')].addr = o
          /\ o' = OpPos(o) + 1
          /\ pc' = "decode"]_vars

(* ------------------------------------------------------------------ *)
(* Code Storage                                                       *)
(* ------------------------------------------------------------------ *)
\* sizes passed to initCodeStorage
InitSizes == {1, 50, PageSize, PageSize + 1}

\* sizes passed to reserveCodeStorage and getCodeStorage
ReqSizes == {0, 1, 50, PageSize}

\* values an int of a fresh malloc block may hold
MallocInts == {-50, 0, 50, PageSize, 3 * PageSize}

\* page-aligned addresses mmap returns
MmapAddrs == {16 * PageSize}

\* (size + 4095) & ~4095
RoundToPage(size) == ((size + (PageSize - 1)) \div PageSize) * PageSize

\* initCodeStorage(size): mmap succeeded.  size, fullsize and buf are assigned;
\* used is never assigned and keeps what malloc's block held.
initCodeStorage ==
    /\ cpc = "none"
    /\ \E size \in InitSizes, b \in MmapAddrs, u \in MallocInts :
         /\ cs' = [size |-> size, fullsize |-> RoundToPage(size), used |-> u, buf |-> b]
         /\ last' = [op |-> "init", size |-> size, ret |-> b, ok |-> TRUE, before |-> cs]
    /\ cpc' = "ready"
    /\ UNCHANGED <<commits, mem, max, stopAtRet, o, hasRex, rex, retFound, code,
                   capacity, pc, readEnd, emuVars, s2Vars>>

\* initCodeStorage(size): mmap returned (unsigned char*)-1, exit(1)
initCodeStorageFail ==
    /\ cpc = "none"
    /\ \E size \in InitSizes :
         last' = [op |-> "init", size |-> size, ret |-> 0, ok |-> FALSE, before |-> cs]
    /\ cpc' = "exit"
    /\ UNCHANGED <<cs, commits, mem, max, stopAtRet, o, hasRex, rex, retFound, code,
                   capacity, pc, readEnd, emuVars, s2Vars>>

reserveFails_OffByOne(c, size) == c.fullsize - c.used <= size

\* the test of reserveCodeStorage that ends in exit(1)
reserveFails(c, size) == c.fullsize - c.used < size

\* the pointer reserveCodeStorage returns
reserveRet(c) == c.buf + c.used

reserveCodeStorage ==
    /\ cpc = "ready"
    /\ \E size \in ReqSizes :
         IF reserveFails(cs, size)
         THEN /\ cpc' = "exit"
              /\ last' = [op |-> "reserve", size |-> size, ret |-> 0, ok |-> FALSE,
                          before |-> cs]
         ELSE /\ cpc' = cpc
              /\ last' = [op |-> "reserve", size |-> size, ret |-> reserveRet(cs),
                          ok |-> TRUE, before |-> cs]
    /\ UNCHANGED <<cs, commits, mem, max, stopAtRet, o, hasRex, rex, retFound, code,
                   capacity, pc, readEnd, emuVars, s2Vars>>

\* the assertion of getCodeStorage
getCodeStorageOK(c, size) == c.fullsize - c.used >= size

getCodeStorageRet_AfterAdvance(c, size) == c.buf + c.used + size

\* p = cs->buf + cs->used, taken before used is advanced
getCodeStorageRet(c, size) == c.buf + c.used

getCodeStorage ==
    /\ cpc = "ready"
    /\ Len(commits) < MaxCommits
    /\ \E size \in ReqSizes :
         IF getCodeStorageOK(cs, size)
         THEN /\ cs' = [cs EXCEPT !.used = cs.used + size]
              /\ cpc' = cpc
              /\ last' = [op |-> "get", size |-> size, ret |-> getCodeStorageRet(cs, size),
                          ok |-> TRUE, before |-> cs]
              /\ commits' = Append(commits, [p |-> getCodeStorageRet(cs, size),
                                             size |-> size])
         ELSE /\ cpc' = "abort"
              /\ last' = [op |-> "get", size |-> size, ret |-> 0, ok |-> FALSE,
                          before |-> cs]
              /\ UNCHANGED <<cs, commits>>
    /\ UNCHANGED <<mem, max, stopAtRet, o, hasRex, rex, retFound, code,
                   capacity, pc, readEnd, emuVars, s2Vars>>

\* freeCodeStorage(cs): munmap and free
freeCodeStorage ==
    /\ cpc = "ready"
    /\ cpc' = "freed"
    /\ last' = [op |-> "free", size |-> 0, ret |-> 0, ok |-> TRUE, before |-> cs]
    /\ UNCHANGED <<cs, commits, mem, max, stopAtRet, o, hasRex, rex, retFound, code,
                   capacity, pc, readEnd, emuVars, s2Vars>>

\* no decoding in progress
DecIdle ==
    /\ mem = <<>> /\ max = 0 /\ stopAtRet = FALSE /\ o = 0 /\ hasRex = 0
    /\ rex = Uninit /\ retFound = FALSE /\ code = <<>> /\ capacity = 1
    /\ pc = "done" /\ readEnd = 0

CsInit == CsIdle /\ DecIdle /\ EmuIdle /\ S2Idle

CsNext ==
    \/ initCodeStorage
    \/ initCodeStorageFail
    \/ reserveCodeStorage
    \/ getCodeStorage
    \/ freeCodeStorage

SpecStorage == CsInit /\ [][CsNext]_vars

(* ------------------------------------------------------------------ *)
(* Claims on the code storage                                         *)
(* ------------------------------------------------------------------ *)

\* C8: while the storage is in use, 0 <= used <= fullsize, fullsize is a
\* multiple of the page size, and the range returned by the last successful
\* reserveCodeStorage or getCodeStorage lies inside [buf, buf + fullsize).
C8_ArenaBounds ==
    cpc = "ready" =>
        /\ 0 <= cs.used /\ cs.used <= cs.fullsize
        /\ cs.fullsize % PageSize = 0
        /\ (last.op \in {"reserve", "get"} /\ last.ok) =>
              /\ cs.buf <= last.ret
              /\ last.ret + last.size <= cs.buf + cs.fullsize

\* C9: reserveCodeStorage(cs, size) changes no field of the storage, returns
\* buf + used, and fails exactly when used + size > fullsize.
C9_ReserveFrame ==
    last.op = "reserve" =>
        /\ cs = last.before
        /\ last.ok <=> ~(last.before.used + last.size > last.before.fullsize)
        /\ last.ok => last.ret = last.before.buf + last.before.used
        /\ ~last.ok => cpc = "exit"

\* a reserve that succeeded after a commit, with the storage exactly filled
C9_Witness ==
    /\ last.op = "reserve" /\ last.ok /\ commits # <<>>
    /\ last.before.used + last.size = last.before.fullsize
    /\ last.size > 0

\* C10: getCodeStorage(cs, size) returns what reserveCodeStorage(cs, size)
\* returns in the same state, fails in the same states, and advances used by
\* size and nothing else; the committed ranges are adjacent and disjoint.
C10_GetAdvances ==
    /\ last.op = "get" =>
          /\ last.ok <=> ~reserveFails(last.before, last.size)
          /\ last.ok =>
                /\ last.ret = reserveRet(last.before)
                /\ cs = [last.before EXCEPT !.used = last.before.used + last.size]
          /\ ~last.ok => (cs = last.before /\ cpc = "abort")
    /\ \A i \in 1..(Len(commits) - 1) :
          commits[i + 1].p = commits[i].p + commits[i].size
    /\ \A i, j \in 1..Len(commits) :
          i < j => commits[i].p + commits[i].size <= commits[j].p

\* three commits of non-empty ranges
C10_Witness ==
    /\ last.op = "get" /\ last.ok
    /\ Len(commits) = 3
    /\ \A i \in 1..Len(commits) : commits[i].size > 0

(* ------------------------------------------------------------------ *)
(* Emulator                                                           *)
(* ------------------------------------------------------------------ *)
\* the address malloc(stacksize) returns
StackBase == <<0, 16, 0, 0, 1, 0, 0, 0>>

\* what a byte outside the stack reads as; Fault: the access raises SIGSEGV
Fault == 256
HostOutcomes == {0, 255, Fault}

\* values passed as first argument: 1, 0xffffffff, 0x580000000, &stack[8],
\* &stack[stack_capacity - 4]
Arg1Vals ==
    {ToW(1), <<255, 255, 255, 255, 0, 0, 0, 0>>, <<0, 0, 0, 128, 5, 0, 0, 0>>,
     AddW(StackBase, ToW(8)), AddW(StackBase, ToW(StackSize - 4))}

\* the arguments of emulate behind c, as the caller loads rsi, rdx, rcx, r8, r9
EmuArgs == {<<a, ToW(2), ToW(3), ToW(4), ToW(5)>> : a \in Arg1Vals}

\* (a >= es->stack) && (a < es->stack + es->stack_capacity)
InStack(e, a) ==
    /\ ~LtW(a, e.stack)
    /\ LtW(a, AddW(e.stack, ToW(e.stack_capacity)))

\* a - es->stack for an a inside the stack
Off(e, a) == ToNat(SubW(a, e.stack))

\* one of the n bytes at a lies outside the stack
Outside(e, a, n) == \E k \in 0..(n - 1) : ~InStack(e, AddW(a, ToW(k)))

\* the n bytes at a; a byte outside the stack reads as hb
RECURSIVE ReadBytes(_, _, _, _, _)
ReadBytes(e, m, a, n, hb) ==
    IF n = 0 THEN <<>>
    ELSE <<IF InStack(e, a) THEN m[Off(e, a) + 1] ELSE hb>>
             \o ReadBytes(e, m, AddW(a, ToW(1)), n - 1, hb)

\* *(uint32_t*) a for n = 4, *(uint64_t*) a for n = 8
Load(e, m, a, n, hb) == ReadBytes(e, m, a, n, hb) \o NatBytes(0, 8 - n)

\* the stack after the low n bytes of v are written at a; bytes written
\* outside the stack land in memory the model does not hold
RECURSIVE StoreFrom(_, _, _, _, _, _)
StoreFrom(e, m, a, n, v, k) ==
    IF k > n THEN m
    ELSE StoreFrom(e,
                   IF InStack(e, a) THEN [m EXCEPT ![Off(e, a) + 1] = v[k]] ELSE m,
                   AddW(a, ToW(1)), n, v, k + 1)

Store(e, m, a, n, v) == StoreFrom(e, m, a, n, v, 1)

\* initEmulatorState(stacksize)
initEmulatorState ==
    /\ pc = "done"
    /\ epc = "noinit"
    /\ es' = [r |-> [i \in 0..(Reg_Max - 1) |-> W0], stack |-> StackBase,
              stack_capacity |-> StackSize]
    /\ stackMem' = [i \in 1..StackSize |-> 0]
    /\ epc' = "idle"
    /\ UNCHANGED <<eargs, ei, foundRet, eret, ncalls, hist, wild, results>>
    /\ UNCHANGED <<mem, max, stopAtRet, o, hasRex, rex, retFound, code, capacity, pc,
                   readEnd, cs, cpc, last, commits, s2Vars>>

\* getOpAddr(es, o)
getOpAddr(e, op) ==
    LET a0 == SignedW(op.val)
        a1 == IF op.reg # Reg_None THEN AddW(a0, e.r[op.reg]) ELSE a0
    IN  IF op.scale > 0 THEN AddW(a1, MulW(op.scale, e.r[op.ireg])) ELSE a1

\* getOpValue(es, o): ok is FALSE at default: assert(0); out tells that the
\* read touched a byte outside the stack
getOpValue(e, m, op, hb) ==
    CASE op.type = "OT_Reg32" ->
            [ok |-> TRUE, v |-> Trunc32(e.r[op.reg]), out |-> FALSE]
      [] op.type = "OT_Reg64" ->
            [ok |-> TRUE, v |-> e.r[op.reg], out |-> FALSE]
      [] op.type = "OT_Ind32" ->
            [ok |-> TRUE, v |-> Load(e, m, getOpAddr(e, op), 4, hb),
             out |-> Outside(e, getOpAddr(e, op), 4)]
      [] op.type = "OT_Ind64" ->
            [ok |-> TRUE, v |-> Load(e, m, getOpAddr(e, op), 8, hb),
             out |-> Outside(e, getOpAddr(e, op), 8)]
      [] OTHER -> [ok |-> FALSE, v |-> W0, out |-> FALSE]

\* setOpValue(es, o, v)
setOpValue(e, m, op, v) ==
    CASE op.type = "OT_Reg32" ->
            [ok |-> TRUE, e |-> [e EXCEPT !.r[op.reg] = Trunc32(v)], m |-> m,
             out |-> FALSE]
      [] op.type = "OT_Reg64" ->
            [ok |-> TRUE, e |-> [e EXCEPT !.r[op.reg] = v], m |-> m, out |-> FALSE]
      [] op.type = "OT_Ind32" ->
            [ok |-> TRUE, e |-> e, m |-> Store(e, m, getOpAddr(e, op), 4, v),
             out |-> Outside(e, getOpAddr(e, op), 4)]
      [] op.type = "OT_Ind64" ->
            [ok |-> TRUE, e |-> e, m |-> Store(e, m, getOpAddr(e, op), 8, v),
             out |-> Outside(e, getOpAddr(e, op), 8)]
      [] OTHER -> [ok |-> FALSE, e |-> e, m |-> m, out |-> FALSE]

\* the assertion of checkStackAddr(es)
checkStackAddr(e) == InStack(e, e.r[Reg_SP])

\* regName(r) returns
regNameOK(r) == r >= Reg_AX /\ r < Reg_Max

\* op2string(o) returns
op2stringOK(op) ==
    CASE op.type \in {"OT_Reg32", "OT_Reg64"} -> regNameOK(op.reg)
      [] op.type \in {"OT_Imm32", "OT_Imm64"} -> TRUE
      [] op.type \in {"OT_Ind8", "OT_Ind16", "OT_Ind32", "OT_Ind64"} ->
            IF op.scale = 0 THEN regNameOK(op.reg)
            ELSE (op.reg = Reg_None \/ regNameOK(op.reg)) /\ regNameOK(op.ireg)
      [] OTHER -> FALSE

\* instr2string(instr) returns
instr2stringOK(ins) ==
    CASE ins.type \in {"IT_PUSH", "IT_POP"} -> op2stringOK(ins.dst)
      [] ins.type \in {"IT_MOV", "IT_ADD", "IT_SUB"} ->
            op2stringOK(ins.src) /\ op2stringOK(ins.dst)
      [] OTHER -> TRUE

\* what one case of the switch in emulate leaves: ok is FALSE when an
\* assertion failed, e and m are the registers and the stack, out tells that a
\* byte outside the stack was accessed, ea holds the value of getOpAddr
Unchanged(e, m) == [ok |-> TRUE, e |-> e, m |-> m, out |-> FALSE, ea |-> <<>>]

Failed(e, m) == [ok |-> FALSE, e |-> e, m |-> m, out |-> FALSE, ea |-> <<>>]

IndTypes == {"OT_Ind8", "OT_Ind16", "OT_Ind32", "OT_Ind64"}

\* the value getOpAddr returns for the memory operand of ins, if it has one
AddrOf(e, ins) ==
    IF ins.dst.type \in IndTypes THEN <<getOpAddr(e, ins.dst)>>
    ELSE IF ins.src.type \in IndTypes THEN <<getOpAddr(e, ins.src)>>
    ELSE <<>>

\* case IT_PUSH: SP is decremented, checked, and the operand is read after that
ExecPush(e, m, ins, hb) ==
    IF ins.dst.type \notin {"OT_Reg32", "OT_Reg64"} THEN Failed(e, m)
    ELSE LET n == opWidth(ins.dst.type) \div 8
             e1 == [e EXCEPT !.r[Reg_SP] = SubW(@, ToW(n))]
             g == getOpValue(e1, m, ins.dst, hb)
         IN  IF ~checkStackAddr(e1) THEN Failed(e1, m)
             ELSE [ok |-> g.ok, e |-> e1, m |-> Store(e1, m, e1.r[Reg_SP], n, g.v),
                   out |-> Outside(e1, e1.r[Reg_SP], n), ea |-> <<>>]

\* case IT_POP: SP is checked, the operand is written, then SP is incremented
ExecPop(e, m, ins, hb) ==
    IF ins.dst.type \notin {"OT_Reg32", "OT_Reg64"} THEN Failed(e, m)
    ELSE LET n == opWidth(ins.dst.type) \div 8
             v == Load(e, m, e.r[Reg_SP], n, hb)
             s == setOpValue(e, m, ins.dst, v)
         IN  IF ~checkStackAddr(e) THEN Failed(e, m)
             ELSE [ok |-> s.ok, e |-> [s.e EXCEPT !.r[Reg_SP] = AddW(@, ToW(n))],
                   m |-> s.m, out |-> Outside(e, e.r[Reg_SP], n), ea |-> <<>>]

\* the width the switch on instr->src.type selects; 0 at default: assert(0)
SrcWidth(ins) ==
    IF ins.src.type \in {"OT_Reg32", "OT_Ind32", "OT_Reg64", "OT_Ind64"}
    THEN opWidth(ins.src.type) ELSE 0

\* v32 = (uint32_t) v or v64 = (uint64_t) v
Cast(w, v) == IF w = 32 THEN Trunc32(v) ELSE v

\* case IT_MOV
ExecMov(e, m, ins, hb) ==
    LET w == SrcWidth(ins)
        g == getOpValue(e, m, ins.src, hb)
        s == setOpValue(e, m, ins.dst, Cast(w, g.v))
    IN  IF w = 0 \/ opWidth(ins.dst.type) # w THEN Failed(e, m)
        ELSE [ok |-> g.ok /\ s.ok, e |-> s.e, m |-> s.m, out |-> g.out \/ s.out,
              ea |-> AddrOf(e, ins)]

\* case IT_ADD
ExecAdd(e, m, ins, hb) ==
    LET w == SrcWidth(ins)
        g == getOpValue(e, m, ins.src, hb)
        d == getOpValue(e, m, ins.dst, hb)
        s == setOpValue(e, m, ins.dst, Cast(w, AddW(Cast(w, g.v), Cast(w, d.v))))
    IN  IF w = 0 \/ opWidth(ins.dst.type) # w THEN Failed(e, m)
        ELSE [ok |-> g.ok /\ d.ok /\ s.ok, e |-> s.e, m |-> s.m,
              out |-> g.out \/ d.out \/ s.out, ea |-> AddrOf(e, ins)]

\* the registers emulate sets before its loop
emulateEntry_ArgsShifted(e, args) ==
    [e EXCEPT !.r[Reg_DI] = args[2], !.r[Reg_SI] = args[3], !.r[Reg_DX] = args[4],
              !.r[Reg_CX] = args[5], !.r[Reg_8] = args[1],
              !.r[Reg_SP] = AddW(e.stack, ToW(e.stack_capacity))]

emulateEntry(e, args) ==
    [e EXCEPT !.r[Reg_DI] = args[1], !.r[Reg_SI] = args[2], !.r[Reg_DX] = args[3],
              !.r[Reg_CX] = args[4], !.r[Reg_8] = args[5],
              !.r[Reg_SP] = AddW(e.stack, ToW(e.stack_capacity))]

\* emulate(c, ...) is entered on the decoded Code
EmuCall ==
    /\ pc = "done"
    /\ epc \in {"idle", "returned"}
    /\ ncalls < MaxEmuCalls
    /\ \E args \in EmuArgs :
         /\ es' = emulateEntry(es, args)
         /\ eargs' = args
         /\ hist' = <<[r |-> emulateEntry(es, args).r, mem |-> stackMem, ea |-> <<>>,
                        instr |-> <<>>]>>
    /\ ei' = 0
    /\ foundRet' = FALSE
    /\ epc' = "run"
    /\ ncalls' = ncalls + 1
    /\ UNCHANGED <<stackMem, eret, wild, results>>
    /\ UNCHANGED <<mem, max, stopAtRet, o, hasRex, rex, retFound, code, capacity, pc,
                   readEnd, cs, cpc, last, commits, s2Vars>>

\* (i < c->count) && !foundRet
EmuLoop == epc = "run" /\ ei < Len(code) /\ ~foundRet

\* c->instr + i
Cur == code[ei + 1]

\* One loop iteration around the case that left res: instr2string may fail an
\* assertion before the switch; an access outside the stack may fault; a
\* failed assertion aborts; otherwise i++.
Iterate(res, ret, hb) ==
    /\ IF ~instr2stringOK(Cur)
       THEN /\ epc' = "abort"
            /\ UNCHANGED <<es, stackMem, ei, foundRet, hist, wild>>
       ELSE IF res.out /\ hb = Fault
       THEN /\ epc' = "segv"
            /\ UNCHANGED <<es, stackMem, ei, foundRet, hist, wild>>
       ELSE IF ~res.ok
       THEN /\ epc' = "abort"
            /\ es' = res.e
            /\ stackMem' = res.m
            /\ wild' = (wild \/ res.out)
            /\ UNCHANGED <<ei, foundRet, hist>>
       ELSE /\ epc' = epc
            /\ es' = res.e
            /\ stackMem' = res.m
            /\ wild' = (wild \/ res.out)
            /\ ei' = ei + 1
            /\ foundRet' = ret
            /\ hist' = Append(hist, [r |-> res.e.r, mem |-> res.m, ea |-> res.ea,
                                      instr |-> <<Cur>>])
    /\ UNCHANGED <<eargs, eret, ncalls, results>>
    /\ UNCHANGED <<mem, max, stopAtRet, o, hasRex, rex, retFound, code, capacity, pc,
                   readEnd, cs, cpc, last, commits, s2Vars>>

EmuPush ==
    /\ EmuLoop
    /\ Cur.type = "IT_PUSH"
    /\ \E hb \in HostOutcomes : Iterate(ExecPush(es, stackMem, Cur, hb), FALSE, hb)

EmuPop ==
    /\ EmuLoop
    /\ Cur.type = "IT_POP"
    /\ \E hb \in HostOutcomes : Iterate(ExecPop(es, stackMem, Cur, hb), FALSE, hb)

EmuMov ==
    /\ EmuLoop
    /\ Cur.type = "IT_MOV"
    /\ \E hb \in HostOutcomes : Iterate(ExecMov(es, stackMem, Cur, hb), FALSE, hb)

EmuAdd ==
    /\ EmuLoop
    /\ Cur.type = "IT_ADD"
    /\ \E hb \in HostOutcomes : Iterate(ExecAdd(es, stackMem, Cur, hb), FALSE, hb)

EmuRet_NoStop ==
    /\ EmuLoop
    /\ Cur.type = "IT_RET"
    /\ Iterate(Unchanged(es, stackMem), FALSE, 0)

\* case IT_RET: foundRet = 1
EmuRet ==
    /\ EmuLoop
    /\ Cur.type = "IT_RET"
    /\ Iterate(Unchanged(es, stackMem), TRUE, 0)

\* default: assert(0)
EmuOther ==
    /\ EmuLoop
    /\ Cur.type \notin {"IT_PUSH", "IT_POP", "IT_MOV", "IT_ADD", "IT_RET"}
    /\ Iterate(Failed(es, stackMem), FALSE, 0)

\* the loop condition fails: return emuState.r[Reg_AX]
EmuReturn ==
    /\ epc = "run"
    /\ ~(ei < Len(code) /\ ~foundRet)
    /\ eret' = es.r[Reg_AX]
    /\ epc' = "returned"
    /\ results' = results \cup {[args |-> eargs, start |-> hist[1], ret |-> es.r[Reg_AX]]}
    /\ UNCHANGED <<es, stackMem, eargs, ei, foundRet, ncalls, hist, wild>>
    /\ UNCHANGED <<mem, max, stopAtRet, o, hasRex, rex, retFound, code, capacity, pc,
                   readEnd, cs, cpc, last, commits, s2Vars>>

EmuNext ==
    \/ initEmulatorState
    \/ EmuCall
    \/ EmuPush
    \/ EmuPop
    \/ EmuMov
    \/ EmuAdd
    \/ EmuRet
    \/ EmuOther
    \/ EmuReturn

\* registers used by the push/pop programs: rax, rsp, rdi
PushPopRegs == {0, 4, 7}

\* functions handed to decodeFunc and then to emulate
Programs ==
    {<<80 + r, 88 + q, 195>> : r, q \in PushPopRegs} \cup
    {<<85, 72, 137, 229, 137, 248, 93, 195>>,   \* push %rbp; mov %rsp,%rbp;
                                               \* mov %edi,%eax; pop %rbp; ret
     <<139, 7, 195>>,                          \* mov (%rdi),%eax; ret
     <<137, 7, 195>>,                          \* mov %eax,(%rdi); ret
     <<87, 139, 7, 195>>,                      \* push %rdi; mov (%rdi),%eax; ret
     <<72, 139, 7, 195>>,                      \* mov (%rdi),%rax; ret
     <<1, 7, 195>>,                            \* add %eax,(%rdi); ret
     <<72, 137, 252, 88, 195>>,                \* mov %rdi,%rsp; pop %rax; ret
     <<1, 248, 195>>,                          \* add %edi,%eax; ret
     <<72, 1, 248, 72, 1, 248, 195>>,          \* add %rdi,%rax; add %rdi,%rax; ret
     <<72, 137, 248, 195>>,                    \* mov %rdi,%rax; ret
     <<137, 248, 1, 248>>,                     \* mov %edi,%eax; add %edi,%eax
     <<195, 1, 248>>,                          \* ret; add %edi,%eax
     <<139, 4, 5, 16, 0, 0, 0, 195>>,          \* mov 0x10(,%rax,1),%eax; ret
     <<139, 68, 116, 240, 195>>,               \* mov -0x10(%rsp,%rsi,2),%eax; ret
     <<139, 68, 36, 248, 195>>,                \* mov -0x8(%rsp),%eax; ret
     <<144, 195>>,                             \* nop; ret
     <<87, 87, 87, 195>>,                      \* push %rdi (3 times); ret
     <<88, 195>>}                              \* pop %rax; ret

\* c = allocCode(capacity); decodeFunc(c, f, max, stopAtRet) with a budget of
\* the function's length and an entry for every byte
PipeInit ==
    /\ mem \in Programs
    /\ max = Len(mem)
    /\ stopAtRet \in BOOLEAN
    /\ capacity = Len(mem)
    /\ o = 0
    /\ hasRex = 0
    /\ rex = Uninit
    /\ retFound = FALSE
    /\ code = <<>>
    /\ pc = "decode"
    /\ readEnd = 0
    /\ CsIdle
    /\ EmuIdle
    /\ S2Idle

PipeNext == DecNext \/ EmuNext

\* decodeFunc, initEmulatorState, then emulate calls on the decoded Code
SpecEmulate == PipeInit /\ [][PipeNext]_vars

(* ------------------------------------------------------------------ *)
(* Claims on the emulator                                             *)
(* ------------------------------------------------------------------ *)
\* 55 48 89 e5 89 f8 5d c3
IdentityBytes == <<85, 72, 137, 229, 137, 248, 93, 195>>

IsReg(op, t, r) == op.type = t /\ op.reg = r

\* push %rbp; mov %rsp,%rbp; mov %edi,%eax; pop %rbp; ret
IsIdentityCode(c) ==
    /\ Len(c) = 5
    /\ c[1].type = "IT_PUSH" /\ IsReg(c[1].dst, "OT_Reg64", Reg_BP)
    /\ c[2].type = "IT_MOV" /\ IsReg(c[2].dst, "OT_Reg64", Reg_BP)
                            /\ IsReg(c[2].src, "OT_Reg64", Reg_SP)
    /\ c[3].type = "IT_MOV" /\ IsReg(c[3].dst, "OT_Reg32", Reg_AX)
                            /\ IsReg(c[3].src, "OT_Reg32", Reg_DI)
    /\ c[4].type = "IT_POP" /\ IsReg(c[4].dst, "OT_Reg64", Reg_BP)
    /\ c[5].type = "IT_RET"

\* C11: the bytes 55 48 89 e5 89 f8 5d c3 decode to push %rbp; mov %rsp,%rbp;
\* mov %edi,%eax; pop %rbp; ret, and every emulate call on that code runs to
\* its return without an abort, returns the low 32 bits of its first argument,
\* and leaves rBP and SP as they were at entry.
C11_Identity ==
    mem = IdentityBytes =>
        /\ pc # "trap"
        /\ pc = "done" => IsIdentityCode(code)
        /\ epc \notin {"abort", "segv"}
        /\ epc = "returned" =>
              /\ eret = <<eargs[1][1], eargs[1][2], eargs[1][3], eargs[1][4], 0, 0, 0, 0>>
              /\ es.r[Reg_BP] = hist[1].r[Reg_BP]
              /\ es.r[Reg_SP] = hist[1].r[Reg_SP]

\* a second call has returned 0x80000000 for the argument 0x580000000
C11_Witness ==
    /\ mem = IdentityBytes
    /\ epc = "returned"
    /\ ncalls = MaxEmuCalls
    /\ eargs[1] = <<0, 0, 0, 128, 5, 0, 0, 0>>
    /\ eret = <<0, 0, 0, 128, 0, 0, 0, 0>>

\* instruction k of the buffer has been emulated and its successor too
Emulated2(k) == k + 2 <= Len(hist) /\ k + 1 <= Len(code)

\* C12: PUSH r moves SP down by the operand's size, and a PUSH r immediately
\* followed by POP r' leaves r' equal to the value r had before the PUSH and
\* SP equal to its value before the PUSH, for every pair of registers.
C12_PushPopRoundTrip ==
    \A k \in 1..Len(code) :
        /\ (k + 1 <= Len(hist) /\ code[k].type = "IT_PUSH") =>
               hist[k + 1].r[Reg_SP] =
                   SubW(hist[k].r[Reg_SP], ToW(opWidth(code[k].dst.type) \div 8))
        /\ (Emulated2(k) /\ code[k].type = "IT_PUSH" /\ code[k + 1].type = "IT_POP") =>
               /\ hist[k + 2].r[code[k + 1].dst.reg] = hist[k].r[code[k].dst.reg]
               /\ hist[k + 2].r[Reg_SP] = hist[k].r[Reg_SP]

\* C13: no byte outside [stack, stack + stack_capacity) is ever read or
\* written by the emulator: an access that is out of range aborts first.
C13_StackGuard == ~wild /\ epc # "segv"

\* 16-bit digit j (1 is the lowest) of a uint64_t
Digit(v, j) == v[2 * j - 1] + 256 * v[2 * j]

\* the carry into digit j of a + b
RECURSIVE CarryIn(_, _, _)
CarryIn(a, b, j) ==
    IF j = 1 THEN 0
    ELSE (Digit(a, j - 1) + Digit(b, j - 1) + CarryIn(a, b, j - 1)) \div 65536

\* res = (a + b) mod 2^(16 * n), zero above
IsSum(res, a, b, n) ==
    \A j \in 1..4 :
        Digit(res, j) = IF j <= n
                        THEN (Digit(a, j) + Digit(b, j) + CarryIn(a, b, j)) % 65536
                        ELSE 0

\* res = a mod 2^(16 * n), zero above
IsCopy(res, a, n) ==
    \A j \in 1..4 : Digit(res, j) = IF j <= n THEN Digit(a, j) ELSE 0

\* the value of the source operand of code[k] before code[k] was emulated, where
\* it is a register or lies in the stack; <<>> otherwise
SrcBefore(k) ==
    LET src == code[k].src
        n == opWidth(src.type) \div 8
        e == [es EXCEPT !.r = hist[k].r]
    IN  IF src.type \in {"OT_Reg32", "OT_Reg64"} THEN <<hist[k].r[src.reg]>>
        ELSE IF ~Outside(e, hist[k + 1].ea[1], n)
        THEN <<Load(e, hist[k].mem, hist[k + 1].ea[1], n, 0)>>
        ELSE <<>>

\* C14: after a MOV or ADD with a register destination of 32 bits the
\* destination holds the low 32 bits of the source, or of destination plus
\* source, with the upper 32 bits zero; with a destination of 64 bits it holds
\* the source, or the sum modulo 2^64; no other register changes.
C14_WidthSemantics ==
    \A k \in 1..Len(code) :
        (k + 1 <= Len(hist) /\ code[k].type \in {"IT_MOV", "IT_ADD"}
           /\ code[k].dst.type \in {"OT_Reg32", "OT_Reg64"}) =>
            LET d == code[k].dst.reg
                n == opWidth(code[k].dst.type) \div 16
                before == hist[k].r
                after == hist[k + 1].r
            IN  /\ \A q \in DOMAIN before : q # d => after[q] = before[q]
                /\ n = 2 => (after[d][5] = 0 /\ after[d][6] = 0
                               /\ after[d][7] = 0 /\ after[d][8] = 0)
                /\ \A j \in 1..8 : after[d][j] \in 0..255
                /\ SrcBefore(k) # <<>> =>
                      IF code[k].type = "IT_MOV"
                      THEN IsCopy(after[d], SrcBefore(k)[1], n)
                      ELSE IsSum(after[d], before[d], SrcBefore(k)[1], n)

\* a 64-bit ADD that carried into the upper half has been emulated, and the
\* call has returned
C14_Witness ==
    /\ epc = "returned"
    /\ \E k \in 1..Len(code) :
        /\ k + 1 <= Len(hist)
        /\ code[k].type = "IT_ADD"
        /\ code[k].dst.type = "OT_Reg64"
        /\ code[k].src.type = "OT_Reg64"
        /\ Digit(hist[k].r[code[k].dst.reg], 2) + Digit(hist[k].r[code[k].src.reg], 2)
              >= 65536

\* C15: an emulate call starts from register and stack contents, and returns
\* a value, that depend only on the code and the arguments: two calls with the
\* same arguments on the same code agree on both.
C15_NoSharedState ==
    \A x, y \in results :
        x.args = y.args => (x.ret = y.ret /\ x.start = y.start)

(* ------------------------------------------------------------------ *)
(* spec2                                                              *)
(* ------------------------------------------------------------------ *)
\* allocCode(100) and decodeFunc(c, f, 100, 1)
Spec2Capacity == 100
Spec2Max == 100
\* initCodeStorage(4096)
Spec2StorageSize == 4096
\* getCodeStorage(cs, 50) and memcpy(p, f, 50)
Spec2CopySize == 50

\* c = allocCode(100); decodeFunc(c, f, 100, 1) is entered
spec2AllocCode ==
    /\ spc = "entry"
    /\ heap' = heap \cup {"c"}
    /\ code' = <<>>
    /\ capacity' = Spec2Capacity
    /\ max' = Spec2Max
    /\ stopAtRet' = TRUE
    /\ o' = 0
    /\ hasRex' = 0
    /\ retFound' = FALSE
    /\ pc' = "decode"
    /\ spc' = "decodeFunc"
    /\ UNCHANGED <<mem, rex, readEnd, cs, cpc, last, commits, emuVars>>

\* cs = initCodeStorage(4096): mmap succeeded
spec2InitCodeStorage ==
    /\ spc = "decodeFunc"
    /\ pc = "done"
    /\ \E b \in MmapAddrs, u \in MallocInts :
         /\ cs' = [size |-> Spec2StorageSize, fullsize |-> RoundToPage(Spec2StorageSize),
                   used |-> u, buf |-> b]
         /\ last' = [op |-> "init", size |-> Spec2StorageSize, ret |-> b, ok |-> TRUE,
                     before |-> cs]
    /\ cpc' = "ready"
    /\ spc' = "getCodeStorage"
    /\ UNCHANGED <<commits, mem, max, stopAtRet, o, hasRex, rex, retFound, code,
                   capacity, pc, readEnd, emuVars, heap>>

\* cs = initCodeStorage(4096): mmap failed, exit(1)
spec2InitCodeStorageFail ==
    /\ spc = "decodeFunc"
    /\ pc = "done"
    /\ last' = [op |-> "init", size |-> Spec2StorageSize, ret |-> 0, ok |-> FALSE,
                before |-> cs]
    /\ cpc' = "exit"
    /\ spc' = "exit"
    /\ UNCHANGED <<cs, commits, mem, max, stopAtRet, o, hasRex, rex, retFound, code,
                   capacity, pc, readEnd, emuVars, heap>>

\* p = getCodeStorage(cs, 50)
spec2GetCodeStorage ==
    /\ spc = "getCodeStorage"
    /\ IF getCodeStorageOK(cs, Spec2CopySize)
       THEN /\ cs' = [cs EXCEPT !.used = cs.used + Spec2CopySize]
            /\ cpc' = cpc
            /\ spc' = "memcpy"
            /\ last' = [op |-> "get", size |-> Spec2CopySize,
                        ret |-> getCodeStorageRet(cs, Spec2CopySize), ok |-> TRUE,
                        before |-> cs]
            /\ commits' = Append(commits, [p |-> getCodeStorageRet(cs, Spec2CopySize),
                                           size |-> Spec2CopySize])
       ELSE /\ cpc' = "abort"
            /\ spc' = "abort"
            /\ last' = [op |-> "get", size |-> Spec2CopySize, ret |-> 0, ok |-> FALSE,
                        before |-> cs]
            /\ UNCHANGED <<cs, commits>>
    /\ UNCHANGED <<mem, max, stopAtRet, o, hasRex, rex, retFound, code,
                   capacity, pc, readEnd, emuVars, heap>>

\* memcpy(p, f, 50); return p
spec2Return ==
    /\ spc = "memcpy"
    /\ readEnd' = Max2(readEnd, Spec2CopySize)
    /\ spc' = "returned"
    /\ UNCHANGED <<mem, max, stopAtRet, o, hasRex, rex, retFound, code, capacity, pc,
                   cs, cpc, last, commits, emuVars, heap>>

\* spec2(f, ...) is entered with FuncLen chosen bytes at f
Spec2Init ==
    /\ mem \in [1..FuncLen -> Bytes]
    /\ max = 0 /\ stopAtRet = FALSE /\ o = 0 /\ hasRex = 0
    /\ rex = Uninit /\ retFound = FALSE /\ code = <<>> /\ capacity = 1
    /\ pc = "done" /\ readEnd = 0
    /\ CsIdle
    /\ EmuIdle
    /\ spc = "entry"
    /\ heap = {}

Spec2Next ==
    \/ spec2AllocCode
    \/ DecNext
    \/ spec2InitCodeStorage
    \/ spec2InitCodeStorageFail
    \/ spec2GetCodeStorage
    \/ spec2Return

SpecSpec2 == Spec2Init /\ [][Spec2Next]_vars

(* ------------------------------------------------------------------ *)
(* Claims on spec2                                                    *)
(* ------------------------------------------------------------------ *)
\* C16: when spec2 returns, every Code buffer it allocated has been freed.
C16_CodeReleased == spc = "returned" => heap = {}

(* ------------------------------------------------------------------ *)
(* Claims on the operands the decoder writes                          *)
(* ------------------------------------------------------------------ *)
\* the instruction at offset a carries no index register: it has no SIB byte,
\* or the index field of its SIB byte is 4
NoIndex(a) ==
    LET p == OpPos(a) + 1
    IN  RmOf(Byte(p)) # 4 \/ RegOf(Byte(p + 1)) = 4

\* C17: every indirect operand in the Code buffer has a scale of 0, 1, 2, 4
\* or 8; a scale above 0 comes with an index register other than Reg_None; an
\* operand of an instruction without index has scale 0.
C17_OperandInvariant ==
    \A k \in 1..Len(code) :
        \A op \in {code[k].dst, code[k].src} :
            op.type \in IndTypes =>
                /\ op.scale \in {0, 1, 2, 4, 8}
                /\ op.scale > 0 => op.ireg # Reg_None
                /\ NoIndex(code[k].addr) => op.scale = 0

(* ------------------------------------------------------------------ *)
(* Claims on the emulator, continued                                  *)
(* ------------------------------------------------------------------ *)
\* C18: from the entry of emulate on, SP lies in the emulator's stack:
\* stack <= r[Reg_SP] <= stack + stack_capacity.
C18_SPInStack ==
    epc \in {"run", "returned", "abort", "segv"} =>
        /\ ~LtW(es.r[Reg_SP], es.stack)
        /\ ~LtW(AddW(es.stack, ToW(es.stack_capacity)), es.r[Reg_SP])

\* index of the first RET of the buffer at or after k; Len(code) if there is none
RECURSIVE StopAt(_)
StopAt(k) ==
    IF k >= Len(code) THEN Len(code)
    ELSE IF code[k].type = "IT_RET" THEN k
    ELSE StopAt(k + 1)

\* C19: the emulator takes the instructions in buffer order, one at a time,
\* and never emulates past the first RET; a RET changes no register and no
\* stack byte; when emulate returns it has stopped at the first RET, or behind
\* the last instruction if there is none, and the value returned is rAX as it
\* was then.
C19_InOrderUntilRet ==
    epc \in {"run", "returned", "abort", "segv"} =>
        /\ Len(hist) = ei + 1
        /\ ei <= StopAt(1)
        /\ \A k \in 1..ei :
              /\ hist[k + 1].instr = <<code[k]>>
              /\ code[k].type = "IT_RET" =>
                    (hist[k + 1].r = hist[k].r /\ hist[k + 1].mem = hist[k].mem)
        /\ epc = "returned" =>
              /\ ei = StopAt(1)
              /\ eret = hist[StopAt(1) + 1].r[Reg_AX]
              /\ es.r = hist[StopAt(1) + 1].r
              /\ stackMem = hist[StopAt(1) + 1].mem

\* emulate has returned from a buffer that holds an instruction behind its
\* first RET
C19_Witness ==
    /\ epc = "returned"
    /\ StopAt(1) < Len(code)
    /\ code[StopAt(1)].type = "IT_RET"
    /\ code[StopAt(1) + 1].type = "IT_ADD"

\* the displacement carried by the instruction at offset a: 8 bits sign
\* extended for mod 1; 32 bits sign extended for mod 2, for mod 0 with rm 5 and
\* for mod 0 with a SIB byte of base 5; none otherwise
InstrDisp(a) ==
    LET p == OpPos(a) + 1
        mod == ModOf(Byte(p))
        rm == RmOf(Byte(p))
        dp == IF rm = 4 THEN p + 2 ELSE p + 1
    IN  IF mod = 1 THEN SignedChar(Byte(dp))
        ELSE IF mod = 2 \/ (mod = 0 /\ rm = 5) \/ (mod = 0 /\ rm = 4 /\ RmOf(Byte(p + 1)) = 5)
        THEN Int32At(dp)
        ELSE 0

\* the memory operand of ins
MemOp(ins) == IF ins.dst.type \in IndTypes THEN ins.dst ELSE ins.src

\* s * v modulo 2^64 for s a power of two
RECURSIVE Scaled(_, _)
Scaled(s, v) == IF s <= 1 THEN v ELSE Scaled(s \div 2, AddW(v, v))

\* C20: for every emulated instruction with an indirect operand, the address
\* getOpAddr computed is base + scale * index + displacement modulo 2^64 on the
\* registers as they were before the instruction, an absent base or index
\* counting 0 and the displacement being the instruction's sign-extended 8-bit
\* or 32-bit displacement.
C20_EffectiveAddress ==
    epc \in {"run", "returned", "abort", "segv"} =>
        \A k \in 1..(Len(hist) - 1) :
            hist[k + 1].ea # <<>> =>
                LET op == MemOp(code[k])
                    before == hist[k].r
                    base == IF op.reg = Reg_None THEN W0 ELSE before[op.reg]
                    index == IF op.scale > 0 /\ op.ireg # Reg_None
                             THEN Scaled(op.scale, before[op.ireg]) ELSE W0
                IN  hist[k + 1].ea[1] =
                        AddW(AddW(base, index), SignedW(InstrDisp(code[k].addr)))

(* ------------------------------------------------------------------ *)
(* Claims on the decoder, continued                                   *)
(* ------------------------------------------------------------------ *)
\* the prefixes found at offset a by a decoder that has seen no prefix before
AlonePfx(a) == PrefixScan([o |-> a, hasRex |-> 0, rex |-> Uninit])

\* the REX bits of the instruction at offset a taken alone; 0 without REX
AloneRex(a) == IF AlonePfx(a).hasRex = 1 THEN AlonePfx(a).rex ELSE 0

\* the entry the bytes at offset a decode to when taken alone
AloneEntry(a) ==
    LET p == AlonePfx(a).o
        b == Byte(p)
        m == parseModRM(p + 1, AloneRex(a))
    IN  CASE b = 195 -> addSimple(a, "IT_RET")
          [] b >= 80 /\ b <= 87 -> addUnaryOp(a, "IT_PUSH", getRegOp(64, Reg_AX + (b - 80)))
          [] b >= 88 /\ b <= 95 -> addUnaryOp(a, "IT_POP", getRegOp(64, Reg_AX + (b - 88)))
          [] b = 137 -> addBinaryOp(a, "IT_MOV", m.o1, m.o2)
          [] b = 139 -> addBinaryOp(a, "IT_MOV", m.o2, m.o1)
          [] b = 1 -> addBinaryOp(a, "IT_ADD", m.o1, m.o2)
          [] OTHER -> addSimple(a, "IT_Invalid")

\* the offset behind the instruction at offset a taken alone
AloneEnd(a) ==
    LET p == AlonePfx(a).o
    IN  IF HasModRM(Byte(p)) THEN p + 1 + parseModRM(p + 1, AloneRex(a)).o ELSE p + 1

\* C21: every entry of the Code buffer is what the bytes at its addr decode to
\* when taken alone, whatever was decoded before it: a REX prefix acts on the
\* instruction it precedes and on no later one.  The first entry starts at f,
\* every other entry starts where its predecessor ended, so that REX bytes are
\* part of the entry they precede and addr is the address of the first prefix
\* byte; the decoder itself stands behind the last entry with hasRex = 0.
C21_PrefixPerInstruction ==
    /\ \A k \in 1..Len(code) :
          /\ code[k] = AloneEntry(code[k].addr)
          /\ code[k].addr = IF k = 1 THEN 0 ELSE AloneEnd(code[k - 1].addr)
    /\ hasRex = 0
    /\ code # <<>> => o = AloneEnd(code[Len(code)].addr)

\* an instruction with a REX.W prefix was decoded, and behind it a MOV or ADD
\* without prefix, whose register operand is a 32-bit one
C21_Witness ==
    \E k \in 1..(Len(code) - 1) :
        /\ IsRex(Byte(code[k].addr))
        /\ HasBit(AloneRex(code[k].addr), REX_MASK_W)
        /\ ~IsRex(Byte(code[k + 1].addr))
        /\ code[k + 1].type \in {"IT_MOV", "IT_ADD"}
        /\ "OT_Reg32" \in {code[k + 1].dst.type, code[k + 1].src.type}

\* the entries appended so far stay as they are
EntriesKept ==
    /\ Len(code') >= Len(code)
    /\ \A k \in 1..Len(code) : code'[k] = code[k]

\* C22: the addresses of the entries are strictly increasing, the number of
\* entries never exceeds the number of bytes consumed, and no step changes an
\* entry already appended; with a capacity of at least max the count stays
\* within 0 .. capacity and the assertion of nextInstr never fails.
C22_CountWithinCapacity ==
    /\ [](/\ \A k \in 1..(Len(code) - 1) : code[k].addr < code[k + 1].addr
          /\ Len(code) <= o
          /\ capacity >= max => (pc # "trap" /\ Len(code) <= capacity))
    /\ [][EntriesKept]_vars

\* decoding has returned with a buffer of capacity max filled to the last entry
C22_Witness ==
    /\ pc = "done"
    /\ capacity = max
    /\ Len(code) = capacity
    /\ Len(code) > 1

====
